---------------------------- MODULE Spec2Model ----------------------------
(***************************************************************************)
(* Model of components/shooter.py: the Shooter component (two flywheel     *)
(* velocity loops, a range -> rpm lookup, and a one-shot latch for the     *)
(* loading piston pulse).                                                  *)
(*                                                                         *)
(* Units.  Distances are integers counting 1/DistScale of a distance unit, *)
(* and every rpm value (targets, encoder velocities, references) is an     *)
(* integer counting 1/DistScale rpm.  With the breakpoints of `ranges`     *)
(* one unit apart the interpolation is exact on this grid.                 *)
(***************************************************************************)
EXTENDS Integers, Sequences, FiniteSets

VARIABLES
    centre_rpm,     \* self.centre_rpm  (scaled rpm)
    outer_rpm,      \* self.outer_rpm   (scaled rpm)
    inject,         \* self.inject
    in_range,       \* self.in_range
    cls,            \* class attributes: [ranges, centre_rpms]
    constructed,    \* __init__ has returned
    raised,         \* "none", or the exception that ended the program
    piston,         \* loading_piston solenoid output, what get() returns
    centre_vel,     \* centre_encoder.getVelocity()  (scaled rpm)
    outer_vel,      \* outer_encoder.getVelocity()   (scaled rpm)
    centre_out,     \* last command the centre drive received
    outer_out,      \* last command the outer drive received
    lastDist,       \* history: << >>, or <<d>> for the latest set_range(d)
    nFire,          \* history: number of fire() calls
    nExecute,       \* history: number of execute() calls
    nPulse,         \* history: number of loading_piston.startPulse() calls
    firedSince,     \* history: fire() was called since the last execute()
    onlyPulseReq,   \* history: every fire() since the last execute() came
                    \*          while the solenoid was on (and there was one)
    rePulse,        \* history: the last execute() pulsed for such a request
    nEnable,        \* history: number of on_enable() calls
    nStopCentre,    \* history: number of centre_motor.stopMotor() calls
    nStopOuter,     \* history: number of outer_motor.stopMotor() calls
    nRefCentre,     \* history: number of centre_pid.setReference() calls
    nRefOuter,      \* history: number of outer_pid.setReference() calls
    nQuery          \* history: number of query / telemetry calls

fields == <<centre_rpm, outer_rpm, inject, in_range>>
hw == <<piston, centre_vel, outer_vel, centre_out, outer_out>>
hist == <<lastDist, nFire, nExecute, nPulse, firedSince, onlyPulseReq, rePulse>>
cmds == <<nEnable, nStopCentre, nStopOuter, nRefCentre, nRefOuter, nQuery>>
vars == <<fields, cls, constructed, raised, hw, hist, cmds>>

----------------------------------------------------------------------------
(* Bounds of the model *)

DistScale == 2
Margin == 2
MaxCalls == 2
MaxEnable == 1

(* Program constants *)

ranges == <<7, 8, 9, 10, 11>>
centre_rpms == <<880, 1120, 1500, 2150, 2400>>
velocity_tolerance == 50
OuterRpm == 5000

\* r rpm (or r distance units) in model units
Scaled(r) == r * DistScale

ShooterClass == [ranges |-> ranges, centre_rpms |-> centre_rpms]

\* Distances handed to set_range: every grid point of the table's span, and
\* the whole units up to Margin outside it
Dists ==
    (Scaled(ranges[1]) .. Scaled(ranges[Len(ranges)]))
    \cup { Scaled(k) : k \in (ranges[1] - Margin) .. (ranges[Len(ranges)] + Margin) }

\* Encoder readings: the edges of the tolerance band around a target t, just
\* inside and just outside
Band(t) == { t - Scaled(velocity_tolerance) - 1, t - Scaled(velocity_tolerance),
             t + Scaled(velocity_tolerance), t + Scaled(velocity_tolerance) + 1 }

\* (centre, outer) readings: at rest; one wheel on an edge of its band with the
\* other on target; both on opposite edges.  The targets sampled are the first
\* centre breakpoint and the outer target.
Readings ==
    LET c == Scaled(centre_rpms[1])
        o == Scaled(OuterRpm)
        tol == Scaled(velocity_tolerance)
    IN {<<0, 0>>}
       \cup { <<cv, o>> : cv \in Band(c) }
       \cup { <<c, ov>> : ov \in Band(o) }
       \cup { <<c - tol, o + tol>>, <<c + tol, o - tol>> }

Idle == [mode |-> "idle", ref |-> 0]
Stopped == [mode |-> "stopped", ref |-> 0]
Velocity(r) == [mode |-> "kVelocity", ref |-> r]

----------------------------------------------------------------------------
(* Pure helpers *)

Abs(x) == IF x < 0 THEN 0 - x ELSE x
Min2(a, b) == IF b < a THEN b ELSE a       \* Python min(a, b)
Max2(a, b) == IF b > a THEN b ELSE a       \* Python max(a, b)

\* numpy's search for the interval of x: the last index j with xp[j] <= x
\* reached by scanning from the left (x is known to lie in xp[1]..xp[n])
SearchIdx(x, xp) ==
    LET n == Len(xp)
        past == { i \in 2..n : x < Scaled(xp[i]) }
    IN IF past = {} THEN n
       ELSE (CHOOSE i \in past : \A k \in past : i <= k) - 1

\* (a step function: the value of the next breakpoint, no interpolation)
InterpStep(x, xp, fp) ==
    LET n == Len(xp)
    IN IF x > Scaled(xp[n]) THEN Scaled(fp[n])
       ELSE IF x < Scaled(xp[1]) THEN Scaled(fp[1])
       ELSE LET j == SearchIdx(x, xp)
            IN IF j = n THEN Scaled(fp[n])
               ELSE Scaled(fp[j + 1])

\* numpy.interp(x, xp, fp) for a scalar x; xp and fp of equal length
Interp(x, xp, fp) ==
    LET n == Len(xp)
    IN IF x > Scaled(xp[n]) THEN Scaled(fp[n])
       ELSE IF x < Scaled(xp[1]) THEN Scaled(fp[1])
       ELSE LET j == SearchIdx(x, xp)
            IN IF j = n THEN Scaled(fp[n])
               ELSE IF Scaled(xp[j]) = x THEN Scaled(fp[j])
               ELSE Scaled(fp[j])
                    + ((x - Scaled(xp[j])) * (fp[j + 1] - fp[j]))
                      \div (xp[j + 1] - xp[j])

----------------------------------------------------------------------------
(* Queries *)

is_at_speed_strict ==
    /\ Abs(centre_rpm - centre_vel) < Scaled(velocity_tolerance)
    /\ Abs(outer_rpm - outer_vel) < Scaled(velocity_tolerance)

is_at_speed ==
    /\ Abs(centre_rpm - centre_vel) <= Scaled(velocity_tolerance)
    /\ Abs(outer_rpm - outer_vel) <= Scaled(velocity_tolerance)

get_centre_velocity == centre_vel
get_outer_velocity == outer_vel

is_firing == ~piston

is_in_range == in_range

is_ready == is_in_range /\ is_at_speed /\ ~is_firing

----------------------------------------------------------------------------
(* Construction *)

\* The instance attributes __init__ assigns
InitFields ==
    /\ outer_rpm = 0
    /\ centre_rpm = 0
    /\ inject = FALSE
    /\ in_range = FALSE

InitRest ==
    /\ raised = "none"
    /\ piston = FALSE
    /\ centre_vel = 0
    /\ outer_vel = 0
    /\ centre_out = Idle
    /\ outer_out = Idle
    /\ lastDist = << >>
    /\ nFire = 0
    /\ nExecute = 0
    /\ nPulse = 0
    /\ firedSince = FALSE
    /\ onlyPulseReq = FALSE
    /\ rePulse = FALSE
    /\ nEnable = 0
    /\ nStopCentre = 0
    /\ nStopOuter = 0
    /\ nRefCentre = 0
    /\ nRefOuter = 0
    /\ nQuery = 0

Init ==
    /\ cls = ShooterClass
    /\ constructed = TRUE
    /\ InitFields
    /\ InitRest

Running == constructed /\ raised = "none"

----------------------------------------------------------------------------
(* Operations *)

\* (on_enable commanding a zero velocity reference instead of stopMotor())
OnEnableZeroReference ==
    /\ Running
    /\ nEnable < MaxEnable
    /\ centre_out' = Velocity(0)
    /\ nRefCentre' = nRefCentre + 1
    /\ outer_out' = Velocity(0)
    /\ nRefOuter' = nRefOuter + 1
    /\ nEnable' = nEnable + 1
    /\ UNCHANGED <<fields, cls, constructed, raised, piston, centre_vel,
                   outer_vel, hist, nStopCentre, nStopOuter, nQuery>>

\* (on_enable dropping the pending request)
OnEnableClearsLatch ==
    /\ Running
    /\ nEnable < MaxEnable
    /\ centre_out' = Stopped
    /\ nStopCentre' = nStopCentre + 1
    /\ outer_out' = Stopped
    /\ nStopOuter' = nStopOuter + 1
    /\ nEnable' = nEnable + 1
    /\ inject' = FALSE
    /\ UNCHANGED <<centre_rpm, outer_rpm, in_range, cls, constructed, raised,
                   piston, centre_vel, outer_vel, hist, nRefCentre, nRefOuter,
                   nQuery>>

on_enable ==
    /\ Running
    /\ nEnable < MaxEnable
    /\ centre_out' = Stopped
    /\ nStopCentre' = nStopCentre + 1
    /\ outer_out' = Stopped
    /\ nStopOuter' = nStopOuter + 1
    /\ nEnable' = nEnable + 1
    /\ UNCHANGED <<fields, cls, constructed, raised, piston, centre_vel,
                   outer_vel, hist, nRefCentre, nRefOuter, nQuery>>

\* (execute handing each loop the other wheel's target)
ExecuteSwapsTargets ==
    /\ Running
    /\ nExecute < MaxCalls
    /\ centre_out' = Velocity(outer_rpm)
    /\ nRefCentre' = nRefCentre + 1
    /\ outer_out' = Velocity(centre_rpm)
    /\ nRefOuter' = nRefOuter + 1
    /\ IF inject
         THEN /\ piston' = TRUE
              /\ nPulse' = nPulse + 1
              /\ inject' = FALSE
         ELSE UNCHANGED <<piston, nPulse, inject>>
    /\ rePulse' = (inject /\ onlyPulseReq)
    /\ nExecute' = nExecute + 1
    /\ firedSince' = FALSE
    /\ onlyPulseReq' = FALSE
    /\ UNCHANGED <<centre_rpm, outer_rpm, in_range, cls, constructed, raised,
                   centre_vel, outer_vel, lastDist, nFire, nEnable,
                   nStopCentre, nStopOuter, nQuery>>

ExecuteKeepsLatch ==
    /\ Running
    /\ nExecute < MaxCalls
    /\ centre_out' = Velocity(centre_rpm)
    /\ nRefCentre' = nRefCentre + 1
    /\ outer_out' = Velocity(outer_rpm)
    /\ nRefOuter' = nRefOuter + 1
    /\ IF inject
         THEN /\ piston' = TRUE
              /\ nPulse' = nPulse + 1
         ELSE UNCHANGED <<piston, nPulse>>
    /\ rePulse' = (inject /\ onlyPulseReq)
    /\ nExecute' = nExecute + 1
    /\ firedSince' = FALSE
    /\ onlyPulseReq' = FALSE
    /\ UNCHANGED <<fields, cls, constructed, raised, centre_vel, outer_vel,
                   lastDist, nFire, nEnable, nStopCentre, nStopOuter,
                   nQuery>>

execute ==
    /\ Running
    /\ nExecute < MaxCalls
    /\ centre_out' = Velocity(centre_rpm)
    /\ nRefCentre' = nRefCentre + 1
    /\ outer_out' = Velocity(outer_rpm)
    /\ nRefOuter' = nRefOuter + 1
    /\ IF inject
         THEN /\ piston' = TRUE
              /\ nPulse' = nPulse + 1
              /\ inject' = FALSE
         ELSE UNCHANGED <<piston, nPulse, inject>>
    /\ rePulse' = (inject /\ onlyPulseReq)
    /\ nExecute' = nExecute + 1
    /\ firedSince' = FALSE
    /\ onlyPulseReq' = FALSE
    /\ UNCHANGED <<centre_rpm, outer_rpm, in_range, cls, constructed, raised,
                   centre_vel, outer_vel, lastDist, nFire, nEnable,
                   nStopCentre, nStopOuter, nQuery>>

\* ranges[0] <= dist <= ranges[-1]
InsideExclusive(dist, lo, hi) == lo < dist /\ dist < hi
Inside(dist, lo, hi) == lo <= dist /\ dist <= hi

\* min(ranges[-1], max(dist, ranges[0]))
ClampSwapped(dist, lo, hi) == Max2(hi, Min2(dist, lo))
Clamp(dist, lo, hi) == Min2(hi, Max2(dist, lo))

\* The targets set_range assigns for the (clamped) distance d
TargetsOuterByRange(d) ==
    [centre |-> Interp(d, cls.ranges, cls.centre_rpms),
     outer  |-> IF d > Scaled(cls.ranges[1]) THEN Scaled(OuterRpm) ELSE 0]
Targets(d) ==
    [centre |-> Interp(d, cls.ranges, cls.centre_rpms),
     outer  |-> Scaled(OuterRpm)]

\* (set_range pushing the new centre target to the drive itself)
SetRangeToCommands(dist) ==
    LET lo == Scaled(cls.ranges[1])
        hi == Scaled(cls.ranges[Len(cls.ranges)])
        inside == Inside(dist, lo, hi)
        d == IF inside THEN dist ELSE Clamp(dist, lo, hi)
    IN /\ in_range' = inside
       /\ lastDist' = <<dist>>
       /\ centre_rpm' = Targets(d).centre
       /\ outer_rpm' = Targets(d).outer
       /\ centre_out' = Velocity(Targets(d).centre)
       /\ nRefCentre' = nRefCentre + 1
       /\ UNCHANGED <<inject, cls, constructed, raised, piston, centre_vel,
                      outer_vel, outer_out, nFire, nExecute, nPulse,
                      firedSince, onlyPulseReq, rePulse, nEnable, nStopCentre,
                      nStopOuter, nRefOuter, nQuery>>

SetRangeTo(dist) ==
    LET lo == Scaled(cls.ranges[1])
        hi == Scaled(cls.ranges[Len(cls.ranges)])
        inside == Inside(dist, lo, hi)
        d == IF inside THEN dist ELSE Clamp(dist, lo, hi)
    IN /\ in_range' = inside
       /\ lastDist' = <<dist>>
       /\ IF Len(cls.ranges) = Len(cls.centre_rpms)
            THEN /\ centre_rpm' = Targets(d).centre
                 /\ outer_rpm' = Targets(d).outer
                 /\ UNCHANGED raised
            ELSE \* numpy.interp: "fp and xp are not of the same length."
                 /\ raised' = "ValueError"
                 /\ UNCHANGED <<centre_rpm, outer_rpm>>
       /\ UNCHANGED <<inject, cls, constructed, hw, nFire, nExecute, nPulse,
                      firedSince, onlyPulseReq, rePulse, cmds>>

set_range ==
    /\ Running
    /\ \E dist \in Dists : SetRangeTo(dist)

\* (fire() refused unless the shooter is ready)
FireWhenReady ==
    /\ Running
    /\ nFire < MaxCalls
    /\ is_ready
    /\ inject' = TRUE
    /\ nFire' = nFire + 1
    /\ firedSince' = TRUE
    /\ onlyPulseReq' = IF firedSince THEN onlyPulseReq /\ piston ELSE piston
    /\ UNCHANGED <<centre_rpm, outer_rpm, in_range, cls, constructed, raised,
                   hw, lastDist, nExecute, nPulse, rePulse, cmds>>

\* (fire() pulsing the piston itself)
FireActuates ==
    /\ Running
    /\ nFire < MaxCalls
    /\ inject' = TRUE
    /\ piston' = TRUE
    /\ nPulse' = nPulse + 1
    /\ nFire' = nFire + 1
    /\ firedSince' = TRUE
    /\ onlyPulseReq' = IF firedSince THEN onlyPulseReq /\ piston ELSE piston
    /\ UNCHANGED <<centre_rpm, outer_rpm, in_range, cls, constructed, raised,
                   centre_vel, outer_vel, centre_out, outer_out, lastDist,
                   nExecute, rePulse, cmds>>

FireGatedByPulse ==
    /\ Running
    /\ nFire < MaxCalls
    /\ inject' = (inject \/ ~piston)
    /\ nFire' = nFire + 1
    /\ firedSince' = TRUE
    /\ onlyPulseReq' = IF firedSince THEN onlyPulseReq /\ piston ELSE piston
    /\ UNCHANGED <<centre_rpm, outer_rpm, in_range, cls, constructed, raised,
                   hw, lastDist, nExecute, nPulse, rePulse, cmds>>

fire ==
    /\ Running
    /\ nFire < MaxCalls
    /\ inject' = TRUE
    /\ nFire' = nFire + 1
    /\ firedSince' = TRUE
    /\ onlyPulseReq' = IF firedSince THEN onlyPulseReq /\ piston ELSE piston
    /\ UNCHANGED <<centre_rpm, outer_rpm, in_range, cls, constructed, raised,
                   hw, lastDist, nExecute, nPulse, rePulse, cmds>>

(* Environment *)

\* The solenoid's pulse timer (setPulseDuration(0.5)) runs out
PulseEnd ==
    /\ Running
    /\ piston
    /\ piston' = FALSE
    /\ UNCHANGED <<fields, cls, constructed, raised, centre_vel, outer_vel,
                   centre_out, outer_out, hist, cmds>>

\* The flywheels change speed
Spin ==
    /\ Running
    /\ \E r \in Readings :
          /\ centre_vel' = r[1]
          /\ outer_vel' = r[2]
    /\ UNCHANGED <<fields, cls, constructed, raised, piston, centre_out,
                   outer_out, hist, cmds>>

Next ==
    \/ on_enable
    \/ execute
    \/ set_range
    \/ fire
    \/ PulseEnd
    \/ Spin

Spec == Init /\ [][Next]_vars

----------------------------------------------------------------------------
(* The calls alone.  In Spec a query is a state function.  SpecCalls adds   *)
(* the act of calling one, and leaves the encoder readings as at start-up:  *)
(* no method but is_at_speed and the two telemetry reads looks at them.     *)
(* execute() is called once per control cycle by the robot loop, hence the  *)
(* weak fairness.                                                           *)

Queries == {"is_at_speed", "get_centre_velocity", "get_outer_velocity",
            "is_firing", "is_in_range", "is_ready"}

Returned(q) ==
    CASE q = "is_at_speed" -> is_at_speed
      [] q = "get_centre_velocity" -> get_centre_velocity
      [] q = "get_outer_velocity" -> get_outer_velocity
      [] q = "is_firing" -> is_firing
      [] q = "is_in_range" -> is_in_range
      [] q = "is_ready" -> is_ready

query ==
    /\ Running
    /\ nQuery < MaxCalls
    /\ \E q \in Queries : \E r \in {Returned(q)} : r = Returned(q)
    /\ nQuery' = nQuery + 1
    /\ UNCHANGED <<fields, cls, constructed, raised, hw, hist, nEnable,
                   nStopCentre, nStopOuter, nRefCentre, nRefOuter>>

NextCalls ==
    \/ on_enable
    \/ execute
    \/ set_range
    \/ fire
    \/ query
    \/ PulseEnd

SpecCalls == Init /\ [][NextCalls]_vars /\ WF_vars(execute)


----------------------------------------------------------------------------
(* Construction with other class tables.  `ranges` and `centre_rpms` are    *)
(* class attributes; __init__ takes no table and reads neither.  SpecConfig *)
(* starts before __init__ with the class tables of a subclass drawn from    *)
(* Tables.                                                                  *)

Tables ==
    { ShooterClass,
      [ranges |-> <<7>>, centre_rpms |-> <<880>>],
      [ranges |-> <<7, 8>>, centre_rpms |-> <<880>>],
      [ranges |-> <<8, 7>>, centre_rpms |-> <<1120, 880>>] }

Construct ==
    /\ ~constructed
    /\ outer_rpm' = 0
    /\ centre_rpm' = 0
    /\ inject' = FALSE
    /\ in_range' = FALSE
    /\ constructed' = TRUE
    /\ UNCHANGED <<cls, raised, hw, hist, cmds>>

InitConfig ==
    /\ cls \in Tables
    /\ constructed = FALSE
    /\ InitFields
    /\ InitRest

NextConfig ==
    \/ Construct
    \/ on_enable
    \/ execute
    \/ set_range
    \/ fire
    \/ PulseEnd

SpecConfig == InitConfig /\ [][NextConfig]_vars

----------------------------------------------------------------------------
(* Properties *)

LastDistIs(d) == lastDist = <<d>>
Ranged == lastDist # << >>

\* C1: every execute() issues exactly one startPulse() when fire() was called
\* since the previous execute() (or since construction) and none otherwise,
\* and leaves the request flag false; no other call issues a startPulse();
\* so startPulse() calls never outnumber execute() calls nor fire() calls.
C1_OnePulsePerRequestedCycle ==
    /\ [](nPulse <= nExecute /\ nPulse <= nFire)
    /\ [][ /\ nExecute' # nExecute =>
                /\ nPulse' = nPulse + (IF firedSince THEN 1 ELSE 0)
                /\ ~inject'
           /\ nExecute' = nExecute => nPulse' = nPulse ]_vars

\* two fire() calls, then one execute(): one startPulse(), flag cleared
C1_Witness == nFire = 2 /\ nExecute = 1 /\ nPulse = 1 /\ ~inject /\ piston

\* C2 as stated: an execute() whose only pending requests were made while a
\* pulse was in progress issues no startPulse().
C2_Original ==
    [][(nExecute' # nExecute /\ onlyPulseReq) => nPulse' = nPulse]_vars

\* C2, amended: a fire() made while a pulse is in progress is latched like any
\* other; the next execute() issues exactly one further startPulse() and
\* clears the flag.
C2_PulseTimeRequestIsServed ==
    [][(nExecute' # nExecute /\ onlyPulseReq) =>
            (nPulse' = nPulse + 1 /\ ~inject' /\ piston')]_vars

\* the second execute() has pulsed for a request made during the first pulse
C2_Witness == rePulse /\ nPulse = 2 /\ nExecute = 2 /\ nFire = 2

\* C3 as stated: is_firing() is true exactly when the solenoid output is on
\* (a pulse started by startPulse() is in progress), false at rest.
C3_Claim == is_firing <=> piston

\* C4 as stated: is_ready() is the conjunction of is_in_range(), is_at_speed()
\* and not is_firing(); it is never true during a pulse, and never true after
\* a clamped set_range().
C4_Claim ==
    /\ is_ready <=> (is_in_range /\ is_at_speed /\ ~is_firing)
    /\ piston => ~is_ready
    /\ (\E d \in Dists : LastDistIs(d) /\ (d < Scaled(7) \/ d > Scaled(11)))
          => ~is_ready

\* C5: is_in_range() is false before any set_range() and afterwards tells
\* whether the latest set_range(d) had 7 <= d <= 11, whatever fire(),
\* execute(), on_enable() and the environment did since.
C5_InRangeTracksLastRange ==
    IF Ranged
      THEN is_in_range <=> (Scaled(7) <= lastDist[1] /\ lastDist[1] <= Scaled(11))
      ELSE ~is_in_range

\* set_range(11) (the last breakpoint, inclusive), then a served request
C5_Witness ==
    /\ LastDistIs(Scaled(11)) /\ is_in_range
    /\ nFire = 1 /\ nExecute = 1 /\ nPulse = 1
    /\ centre_out = Stopped

\* The breakpoints as the claim lists them
Pts == << <<7, 880>>, <<8, 1120>>, <<9, 1500>>, <<10, 2150>>, <<11, 2400>> >>

\* y lies on the straight line through breakpoints i and i+1 at distance d
OnSegment(i, d, y) ==
    /\ Scaled(Pts[i][1]) <= d /\ d <= Scaled(Pts[i + 1][1])
    /\ (y - Scaled(Pts[i][2])) * (Pts[i + 1][1] - Pts[i][1])
         = (d - Scaled(Pts[i][1])) * (Pts[i + 1][2] - Pts[i][2])

InTable(d) == Scaled(7) <= d /\ d <= Scaled(11)

\* C6: after set_range(d) with 7 <= d <= 11 the centre target is the
\* piecewise-linear interpolation of d over the breakpoints: on the line
\* joining the two adjacent breakpoints, the table value at a breakpoint, 1000
\* at 7.5, within [880, 2400], and non-decreasing in d.
C6_ExactInterpolation ==
    /\ [](\A d \in Dists : (LastDistIs(d) /\ InTable(d)) =>
            /\ \E i \in 1..4 : OnSegment(i, d, centre_rpm)
            /\ \A i \in 1..5 : d = Scaled(Pts[i][1]) => centre_rpm = Scaled(Pts[i][2])
            /\ 2 * d = 15 * DistScale => centre_rpm = Scaled(1000)
            /\ Scaled(880) <= centre_rpm /\ centre_rpm <= Scaled(2400))
    /\ [][(Ranged /\ Ranged' /\ InTable(lastDist[1]) /\ InTable(lastDist'[1])) =>
            /\ lastDist[1] <= lastDist'[1] => centre_rpm <= centre_rpm'
            /\ lastDist[1] >= lastDist'[1] => centre_rpm >= centre_rpm']_vars

\* set_range(7.5) has set the centre target to 1000
C6_Witness == Ranged /\ 2 * lastDist[1] = 15 * DistScale /\ centre_rpm = Scaled(1000)

\* C7: set_range(d) with d < 7 leaves the targets of set_range(7) (880 and
\* 5000), with d > 11 those of set_range(11) (2400 and 5000); it raises
\* nothing, clears in_range, and changes nothing else.
C7_ClampedToEndpoints ==
    /\ [](\A d \in Dists : LastDistIs(d) =>
            /\ d < Scaled(7) =>
                 /\ centre_rpm = Scaled(880) /\ outer_rpm = Scaled(5000)
                 /\ ~in_range /\ raised = "none"
            /\ d > Scaled(11) =>
                 /\ centre_rpm = Scaled(2400) /\ outer_rpm = Scaled(5000)
                 /\ ~in_range /\ raised = "none"
            /\ d = Scaled(7) => centre_rpm = Scaled(880) /\ in_range
            /\ d = Scaled(11) => centre_rpm = Scaled(2400) /\ in_range)
    /\ [][lastDist' # lastDist =>
            UNCHANGED <<inject, cls, constructed, raised, hw, nFire, nExecute,
                        nPulse>>]_vars

\* set_range(5) after a set_range that had left another target
C7_Witness ==
    /\ LastDistIs(Scaled(5)) /\ centre_rpm = Scaled(880) /\ ~in_range
    /\ centre_out = Velocity(Scaled(2400))

\* C8 as stated: the outer target is 5000 in every reachable state.
C8_Original == outer_rpm = Scaled(5000)

\* C8, amended: the outer target is 0 from construction until the first
\* set_range() and 5000 after every set_range(d), whatever d; no other call
\* changes it.
C8_OuterTarget == outer_rpm = (IF Ranged THEN Scaled(5000) ELSE 0)

\* an out-of-range set_range(5) has set the outer target, and execute() has
\* commanded it
C8_Witness ==
    /\ LastDistIs(Scaled(5)) /\ outer_rpm = Scaled(5000)
    /\ outer_out = Velocity(Scaled(5000))

\* C9: is_at_speed() is true exactly when the live centre velocity is within
\* 50 rpm of the centre target and the live outer velocity within 50 rpm of
\* the outer target, both ends included.
C9_AtSpeedWithinTolerance ==
    is_at_speed <=>
        /\ centre_rpm - Scaled(50) <= get_centre_velocity
        /\ get_centre_velocity <= centre_rpm + Scaled(50)
        /\ outer_rpm - Scaled(50) <= get_outer_velocity
        /\ get_outer_velocity <= outer_rpm + Scaled(50)

\* centre exactly 50 below its target, outer exactly 50 above: at speed
C9_Witness ==
    /\ is_at_speed
    /\ centre_rpm = Scaled(880) /\ centre_vel = Scaled(830)
    /\ outer_rpm = Scaled(5000) /\ outer_vel = Scaled(5050)

WellFormed(t) ==
    /\ Len(t.ranges) >= 2
    /\ Len(t.ranges) = Len(t.centre_rpms)
    /\ \A i \in 1..(Len(t.ranges) - 1) : t.ranges[i] < t.ranges[i + 1]

\* C10 as stated: construction with a malformed table fails, so a controller
\* that was constructed, and any that reached set_range() or execute(), has a
\* well-formed table.
C10_Claim ==
    (constructed \/ Ranged \/ nExecute > 0) => WellFormed(cls)

\* C11: startPulse() is issued only by execute(), never by fire(), set_range(),
\* on_enable() or the environment; fire() leaves the request pending, it
\* stays pending across every call that is not execute(), and the next
\* execute() answers it with a startPulse(); with execute() called fairly
\* (and calls left within MaxCalls) every pending request is consumed.
C11_OnlyExecuteActuates ==
    /\ [][(nPulse' # nPulse \/ (~piston /\ piston')) => nExecute' # nExecute]_vars
    /\ [][nFire' # nFire => (inject' /\ nPulse' = nPulse /\ piston' = piston)]_vars
    /\ [][(inject /\ nExecute' = nExecute) => inject']_vars
    /\ [][(inject /\ nExecute' # nExecute) =>
              (nPulse' = nPulse + 1 /\ piston' /\ ~inject')]_vars
    /\ (inject /\ nExecute < MaxCalls) ~> (~inject /\ nPulse > 0)

\* a request that waited through set_range(9) has been pulsed by execute()
C11_Witness ==
    /\ nFire = 1 /\ nExecute = 1 /\ nPulse = 1 /\ piston /\ ~inject
    /\ LastDistIs(Scaled(9)) /\ centre_out = Velocity(Scaled(1500))

\* C12: every on_enable() issues exactly one stopMotor() to the centre drive
\* and one to the outer drive, no setReference() to either loop and no
\* startPulse(), and leaves both targets and in_range unchanged; no other call
\* issues a stopMotor().
C12_EnableStopsBothDrives ==
    /\ [](nStopCentre = nEnable /\ nStopOuter = nEnable)
    /\ [][nEnable' # nEnable =>
            /\ nStopCentre' = nStopCentre + 1 /\ centre_out' = Stopped
            /\ nStopOuter' = nStopOuter + 1 /\ outer_out' = Stopped
            /\ nRefCentre' = nRefCentre /\ nRefOuter' = nRefOuter
            /\ nPulse' = nPulse /\ piston' = piston
            /\ UNCHANGED <<centre_rpm, outer_rpm, in_range>>]_vars

\* on_enable() after set_range(9) and an execute(): both drives stopped, the
\* targets kept
C12_Witness ==
    /\ nEnable = 1 /\ nStopCentre = 1 /\ nStopOuter = 1
    /\ centre_out = Stopped /\ outer_out = Stopped
    /\ nRefCentre = 1 /\ nRefOuter = 1
    /\ centre_rpm = Scaled(1500) /\ outer_rpm = Scaled(5000) /\ in_range

\* y is the centre target the claims give for set_range(d)
ExpectedCentre(d, y) ==
    IF d < Scaled(7) THEN y = Scaled(880)
    ELSE IF d > Scaled(11) THEN y = Scaled(2400)
    ELSE \E i \in 1..4 : OnSegment(i, d, y)

\* C13: every execute() issues exactly one kVelocity reference to the centre
\* loop, the current centre target, and one to the outer loop, the current
\* outer target: the targets of the latest set_range(), or zero for both before
\* any set_range() (the state construction leaves, with no pulse requested);
\* execute() changes neither the targets nor in_range, and nothing else
\* issues a reference.
C13_ExecuteCommandsTargets ==
    /\ [](nRefCentre = nExecute /\ nRefOuter = nExecute)
    /\ []((nFire = 0 => ~inject) /\ (~Ranged => centre_rpm = 0 /\ outer_rpm = 0))
    /\ [][nExecute' # nExecute =>
            /\ nRefCentre' = nRefCentre + 1 /\ nRefOuter' = nRefOuter + 1
            /\ centre_out'.mode = "kVelocity" /\ outer_out'.mode = "kVelocity"
            /\ centre_out'.ref = centre_rpm /\ outer_out'.ref = outer_rpm
            /\ IF Ranged
                 THEN /\ ExpectedCentre(lastDist[1], centre_out'.ref)
                      /\ outer_out'.ref = Scaled(5000)
                 ELSE centre_out'.ref = 0 /\ outer_out'.ref = 0
            /\ UNCHANGED <<centre_rpm, outer_rpm, in_range>>]_vars

\* two execute() calls, the second after set_range(7.5): references 1000 and
\* 5000
C13_Witness ==
    /\ nExecute = 2 /\ nRefCentre = 2 /\ nRefOuter = 2
    /\ Ranged /\ 2 * lastDist[1] = 15 * DistScale
    /\ centre_out = Velocity(Scaled(1000)) /\ outer_out = Velocity(Scaled(5000))

\* C14: set_range() issues no command to the piston or the drives and leaves
\* the request flag alone; fire() changes the request flag only; a query or
\* telemetry read changes no controller state and issues no command.
C14_NoSideEffects ==
    /\ [][lastDist' # lastDist =>
            UNCHANGED <<inject, hw, nPulse, nStopCentre, nStopOuter,
                        nRefCentre, nRefOuter>>]_vars
    /\ [][nFire' # nFire =>
            /\ inject'
            /\ UNCHANGED <<centre_rpm, outer_rpm, in_range, hw, nPulse,
                           nStopCentre, nStopOuter, nRefCentre, nRefOuter>>]_vars
    /\ [][nQuery' # nQuery =>
            UNCHANGED <<fields, hw, nPulse, nStopCentre, nStopOuter,
                        nRefCentre, nRefOuter>>]_vars

\* set_range(9), fire() and two queries so far: the drives were never
\* commanded, the piston never pulsed, the request is pending
C14_Witness ==
    /\ nQuery = 2 /\ nFire = 1 /\ inject /\ LastDistIs(Scaled(9))
    /\ centre_rpm = Scaled(1500)
    /\ centre_out = Idle /\ outer_out = Idle /\ ~piston /\ nPulse = 0

\* C15: on_enable() neither clears a pending request nor resets the targets;
\* the first execute() after it (the drives still stopped) pulses if fire()
\* was called since the previous execute(), and commands again the targets
\* the latest set_range() left.
C15_EnableKeepsRequestAndTargets ==
    /\ [][nEnable' # nEnable =>
            UNCHANGED <<inject, centre_rpm, outer_rpm, in_range>>]_vars
    /\ [][(nExecute' # nExecute /\ centre_out = Stopped /\ outer_out = Stopped) =>
            /\ firedSince => (nPulse' = nPulse + 1 /\ piston')
            /\ centre_out' = Velocity(centre_rpm)
            /\ outer_out' = Velocity(outer_rpm)
            /\ Ranged => /\ ExpectedCentre(lastDist[1], centre_out'.ref)
                         /\ outer_out'.ref = Scaled(5000)]_vars

\* fire() and set_range(9), one on_enable(), then the one execute(): the
\* piston pulsed and the references are 1500 and 5000 again
C15_Witness ==
    /\ nEnable = 1 /\ nFire = 1 /\ nExecute = 1 /\ nPulse = 1 /\ piston
    /\ LastDistIs(Scaled(9))
    /\ centre_out = Velocity(Scaled(1500)) /\ outer_out = Velocity(Scaled(5000))

\* C16: fire() is accepted whatever is_ready() says, and does not change what
\* is_ready() says; execute() pulses for a pending request whether or not
\* is_ready() holds.
C16_ReadinessIsAdvisory ==
    /\ []((Running /\ nFire < MaxCalls) => ENABLED fire)
    /\ [][nFire' # nFire => (inject' /\ is_ready' = is_ready)]_vars
    /\ [][(nExecute' # nExecute /\ inject) => nPulse' = nPulse + 1]_vars

\* the one pulse so far was issued with the solenoid off, when is_ready() was
\* false; now a request is pending and is_ready() is true
C16_Witness == nPulse = 1 /\ nExecute = 1 /\ inject /\ is_ready

=============================================================================
